---- MODULE Spec2Model ----
(***************************************************************************)
(* A model of youtube_app.py: the two adapters around the yt_dlp extractor *)
(* (get_video_info, download_video), the helpers get_quality_format and    *)
(* format_duration, and the Streamlit script that calls them.              *)
(*                                                                         *)
(* Python strings are sequences of one-character strings, so slicing,      *)
(* concatenation, splitting and number formatting are computed and not     *)
(* assumed.  A Python value is a tagged record: PyStr(s), PyInt(n),        *)
(* PyBool(b) or PyNone.  A dict is a function from its keys to values; a   *)
(* key the dict lacks is not in its DOMAIN.                                *)
(***************************************************************************)
EXTENDS Integers, Sequences, FiniteSets, TLC

VARIABLES
    seconds,        \* format_duration: the argument
    formatted,      \* format_duration: the returned string (NotYet before)
    info_call,      \* get_video_info: the argument of the latest call
    info_outcome,   \* what ydl.extract_info(url, download=False) did
    info_ret,       \* get_video_info: the returned dict (NotYet before)
    dl_call,        \* download_video: the arguments of the latest call
    dl_outcome,     \* what ydl.extract_info(url, download=True) did
    ydl_opts,       \* the options download_video handed to YoutubeDL
    dl_result,      \* how the latest download_video call ended
    fs,             \* the output directories: their state and their files
    watch,          \* the watched call: arguments, extractor outcome, first fs
    observed,       \* the calls counted, and the results of the watched call
    pc,             \* per browser session: where its script run stands
    ui_url,         \* per browser session: the content of the URL field
    trigger,        \* per browser session: the button that started the run
    inflight,       \* the adapter calls started and not yet returned
    session_state   \* per browser session: st.session_state['video_info']

vars == <<seconds, formatted, info_call, info_outcome, info_ret, dl_call,
          dl_outcome, ydl_opts, dl_result, fs, watch, observed, pc, ui_url,
          trigger, inflight, session_state>>

durVars  == <<seconds, formatted>>
infoVars == <<info_call, info_outcome, info_ret>>
dlVars   == <<dl_call, dl_outcome, ydl_opts, dl_result, fs, watch, observed>>
uiVars   == <<pc, ui_url, trigger, inflight, session_state>>

----------------------------------------------------------------------------
(* Bounds of the model.                                                    *)

\* format_duration is applied to every whole number of seconds up to here.
MaxSeconds == 7325
\* Descriptions have every length from DescLimit - 3 up to here.
MaxDescLen == 203
\* Browser sessions connected to the Streamlit server.
NumSessions == 2
\* Calls of download_video with the same arguments, one after the other.
MaxCalls == 2

----------------------------------------------------------------------------
(* Python values.                                                          *)

PyStr(s)  == [t |-> "str", s |-> s]
PyInt(n)  == [t |-> "int", n |-> n]
PyBool(b) == [t |-> "bool", b |-> b]
PyNone    == [t |-> "none"]
NotYet    == [t |-> "notyet"]

DigitChar == <<"0","1","2","3","4","5","6","7","8","9">>

\* str(n) of a non-negative int.
RECURSIVE Decimal(_)
Decimal(n) ==
    IF n < 10 THEN <<DigitChar[n + 1]>>
    ELSE Decimal(n \div 10) \o <<DigitChar[(n % 10) + 1]>>

\* What an f-string writes for {v}: str(v).
Str(v) ==
    CASE v.t = "str"  -> v.s
      [] v.t = "int"  -> Decimal(v.n)
      [] v.t = "none" -> <<"N","o","n","e">>
      [] v.t = "bool" -> IF v.b THEN <<"T","r","u","e">>
                                ELSE <<"F","a","l","s","e">>

\* dict.get(key, default)
Get(d, key, default) == IF key \in DOMAIN d THEN d[key] ELSE default

\* Python truthiness of a value: `if not v` is ~Truthy(v).
Truthy(v) ==
    CASE v.t = "none" -> FALSE
      [] v.t = "int"  -> v.n # 0
      [] v.t = "str"  -> v.s # <<>>
      [] v.t = "bool" -> v.b

Unknown == <<"U","n","k","n","o","w","n">>
Ellipsis == <<".",".",".">>

----------------------------------------------------------------------------
(* get_quality_format                                                      *)

Q2160 == <<"2","1","6","0">>
Q1080 == <<"1","0","8","0">>
Q720  == <<"7","2","0">>
Q480  == <<"4","8","0">>

\* The quality_formats dict: its four keys are strings.
quality_formats(key) ==
    CASE key = Q2160 ->
            <<"b","e","s","t","v","i","d","e","o","[","h","e","i","g","h","t",
              "<","=","2","1","6","0","]","[","e","x","t","=","m","p","4","]",
              "+","b","e","s","t","a","u","d","i","o","[","e","x","t","=","m",
              "4","a","]","/","b","e","s","t","[","h","e","i","g","h","t","<",
              "=","2","1","6","0","]","[","e","x","t","=","m","p","4","]","/",
              "b","e","s","t">>
      [] key = Q1080 ->
            <<"b","e","s","t","v","i","d","e","o","[","h","e","i","g","h","t",
              "<","=","1","0","8","0","]","[","e","x","t","=","m","p","4","]",
              "+","b","e","s","t","a","u","d","i","o","[","e","x","t","=","m",
              "4","a","]","/","b","e","s","t","[","h","e","i","g","h","t","<",
              "=","1","0","8","0","]","[","e","x","t","=","m","p","4","]","/",
              "b","e","s","t">>
      [] key = Q720 ->
            <<"b","e","s","t","v","i","d","e","o","[","h","e","i","g","h","t",
              "<","=","7","2","0","]","[","e","x","t","=","m","p","4","]","+",
              "b","e","s","t","a","u","d","i","o","[","e","x","t","=","m","4",
              "a","]","/","b","e","s","t","[","h","e","i","g","h","t","<","=",
              "7","2","0","]","[","e","x","t","=","m","p","4","]","/","b","e",
              "s","t">>
      [] key = Q480 ->
            <<"b","e","s","t","v","i","d","e","o","[","h","e","i","g","h","t",
              "<","=","4","8","0","]","[","e","x","t","=","m","p","4","]","+",
              "b","e","s","t","a","u","d","i","o","[","e","x","t","=","m","4",
              "a","]","/","b","e","s","t","[","h","e","i","g","h","t","<","=",
              "4","8","0","]","[","e","x","t","=","m","p","4","]","/","b","e",
              "s","t">>

quality_keys == {Q2160, Q1080, Q720, Q480}

\* A mutant: an unknown tier falls back to the 720 entry.
get_quality_format_default720(quality) ==
    IF quality.t = "str" /\ quality.s \in quality_keys
    THEN quality_formats(quality.s)
    ELSE quality_formats(Q720)

\* quality_formats.get(quality, quality_formats["1080"]); an int such as 720
\* is not one of the string keys.
get_quality_format(quality) ==
    IF quality.t = "str" /\ quality.s \in quality_keys
    THEN quality_formats(quality.s)
    ELSE quality_formats(Q1080)

----------------------------------------------------------------------------
(* format_duration                                                         *)

\* f"{n:02d}": decimal, zero-padded to at least two digits.
Format02d(n) == IF n < 10 THEN <<"0">> \o Decimal(n) ELSE Decimal(n)

\* A mutant: no padding.
format_duration_unpadded(secondsArg) ==
    IF ~Truthy(secondsArg) THEN Unknown
    ELSE LET hours   == secondsArg.n \div 3600
             minutes == (secondsArg.n % 3600) \div 60
             secs    == secondsArg.n % 60
         IN  IF hours > 0
             THEN Decimal(hours) \o <<":">> \o Decimal(minutes)
                      \o <<":">> \o Decimal(secs)
             ELSE Decimal(minutes) \o <<":">> \o Decimal(secs)

format_duration(secondsArg) ==
    IF ~Truthy(secondsArg) THEN Unknown
    ELSE LET hours   == secondsArg.n \div 3600
             minutes == (secondsArg.n % 3600) \div 60
             secs    == secondsArg.n % 60
         IN  IF hours > 0
             THEN Format02d(hours) \o <<":">> \o Format02d(minutes)
                      \o <<":">> \o Format02d(secs)
             ELSE Format02d(minutes) \o <<":">> \o Format02d(secs)

----------------------------------------------------------------------------
(* The extractor (yt_dlp), a black box: a call either raises an exception  *)
(* carrying a text, or returns an info dict.  Any key of the dict may be   *)
(* missing, and yt_dlp reports a field it could not determine as None.     *)

ValidUrl   == "https://www.youtube.com/watch?v=abc"
InvalidUrl == "not-a-url"
Urls == {ValidUrl, InvalidUrl}

Absent == [t |-> "absent"]

\* Texts of the errors yt_dlp reports itself (DownloadError).
ErrInvalidUrl ==
    <<"E","R","R","O","R",":"," ","'","n","o","t","-","a","-","u","r","l","'",
      " ","i","s"," ","n","o","t"," ","a"," ","v","a","l","i","d"," ","U","R",
      "L">>
ErrNetwork ==
    <<"E","R","R","O","R",":"," ","u","n","a","b","l","e"," ","t","o"," ","d",
      "o","w","n","l","o","a","d"," ","w","e","b","p","a","g","e">>
ErrPrivate ==
    <<"E","R","R","O","R",":"," ","P","r","i","v","a","t","e"," ","v","i","d",
      "e","o">>
\* An exception that is not yt_dlp's own (it is re-raised as it is) may
\* have any text, also none: str(AssertionError()) is ''.
OtherErrorTexts == {<<>>, <<"b","o","o","m">>}

\* str(e) of the TypeError raised by None[:200].
NoneNotSubscriptable ==
    <<"'","N","o","n","e","T","y","p","e","'"," ","o","b","j","e","c","t"," ",
      "i","s"," ","n","o","t"," ","s","u","b","s","c","r","i","p","t","a","b",
      "l","e">>

Raise(failure, msg) == [kind |-> "raise", failure |-> failure, msg |-> msg]

DescChar == <<"a","b",".","c"," ","d","e">>
\* A description of n characters; neighbouring positions differ.
DescOf(n) == [i \in 1..n |-> DescChar[(i % 7) + 1]]

\* description[:200]
DescLimit == 200

DescLens == {0, 1, 2} \cup ((DescLimit - 3)..MaxDescLen)

TitleT   == <<"T","i","t","l","e">>
ChannelC == <<"C","h">>
ThumbU   == <<"h","t","t","p",":","/","/","i","/","t",".","j","p","g">>

InfoKeys == {"title", "channel", "duration", "thumbnail", "view_count",
             "description"}

\* The dict with the fields of `full` that are not Absent.
Present(full) == [k \in {x \in DOMAIN full : full[x] # Absent} |-> full[k]]

InspectInfos ==
    { Present([title |-> a, channel |-> b, duration |-> c, thumbnail |-> d,
               view_count |-> e, description |-> f]) :
        a \in {Absent, PyNone, PyStr(TitleT)},
        b \in {Absent, PyNone, PyStr(ChannelC)},
        c \in {Absent, PyNone, PyInt(65)},
        d \in {Absent, PyNone, PyStr(ThumbU)},
        e \in {Absent, PyNone, PyInt(1234)},
        f \in {Absent, PyNone} \cup {PyStr(DescOf(n)) : n \in DescLens} }

\* ydl.extract_info(url, download=False)
ExtractInfoInspect(url) ==
    IF url = InvalidUrl
    THEN {Raise("invalid_url", ErrInvalidUrl)}
    ELSE {Raise("network", ErrNetwork), Raise("private", ErrPrivate)}
         \cup {Raise("other", m) : m \in OtherErrorTexts}
         \cup {[kind |-> "return", info |-> i] : i \in InspectInfos}

----------------------------------------------------------------------------
(* get_video_info                                                          *)

Min(a, b) == IF a < b THEN a ELSE b

\* s[:n]
SliceTo(s, n) == SubSeq(s, 1, Min(Len(s), n))

\* A mutant: the marker only where something was cut off.
description_excerpt_marker_if_cut(d) ==
    IF Len(d) > DescLimit THEN SliceTo(d, DescLimit) \o Ellipsis ELSE d

\* info.get('description', '')[:200] + '...'
description_excerpt(d) == SliceTo(d, DescLimit) \o Ellipsis

Failure(msg) == [success |-> PyBool(FALSE), error |-> PyStr(msg)]

\* A mutant: the failure record carries a fixed text and default metadata.
get_video_info_generic_failure(outcome) ==
    [success |-> PyBool(FALSE),
     error |-> PyStr(<<"f","a","i","l","e","d">>),
     title |-> PyStr(Unknown)]

\* The except branch of get_video_info: str(e) as it is.
info_failure(outcome) == Failure(outcome.msg)

get_video_info(outcome) ==
    IF outcome.kind = "raise" THEN info_failure(outcome)
    ELSE LET info == outcome.info
             desc == Get(info, "description", PyStr(<<>>))
         IN  IF desc.t # "str"
             THEN \* None[:200] raises TypeError inside the try block
                  Failure(NoneNotSubscriptable)
             ELSE [success     |-> PyBool(TRUE),
                   title       |-> Get(info, "title", PyStr(Unknown)),
                   channel     |-> Get(info, "channel", PyStr(Unknown)),
                   duration    |-> Get(info, "duration", PyInt(0)),
                   thumbnail   |-> Get(info, "thumbnail", PyStr(<<>>)),
                   views       |-> Get(info, "view_count", PyInt(0)),
                   description |-> PyStr(description_excerpt(desc.s))]

----------------------------------------------------------------------------
(* The filesystem and the extractor in download mode.                      *)

OutDir == <<"/","o","u","t">>
Paths == {OutDir}

\* A directory path is absent (and can be created), exists, or is blocked:
\* it cannot be created (a parent is read-only, or the path is a file).
DirStates == {"absent", "exists", "blocked"}

\* str(e) of the OSError os.makedirs raises.
ErrPermission ==
    <<"[","E","r","r","n","o"," ","1","3","]"," ","P","e","r","m","i","s","s",
      "i","o","n"," ","d","e","n","i","e","d",":"," ","'","/","o","u","t",
      "'">>
ErrFileExists ==
    <<"[","E","r","r","n","o"," ","1","7","]"," ","F","i","l","e"," ","e","x",
      "i","s","t","s",":"," ","'","/","o","u","t","'">>

\* A mutant: exist_ok is not passed, an existing directory is an error.
makedirs_without_exist_ok(fsys, path) ==
    CASE fsys[path].dir = "blocked" ->
            [ok |-> FALSE, exc |-> ErrPermission, fs |-> fsys]
      [] fsys[path].dir = "exists" ->
            [ok |-> FALSE, exc |-> ErrFileExists, fs |-> fsys]
      [] OTHER ->
            [ok |-> TRUE, fs |-> [fsys EXCEPT ![path].dir = "exists"]]

\* os.makedirs(output_path, exist_ok=True)
makedirs(fsys, path) ==
    IF fsys[path].dir = "blocked"
    THEN [ok |-> FALSE, exc |-> ErrPermission, fs |-> fsys]
    ELSE [ok |-> TRUE, fs |-> [fsys EXCEPT ![path].dir = "exists"]]

ErrBlocked ==
    <<"E","R","R","O","R",":"," ","V","i","d","e","o"," ","u","n","a","v","a",
      "i","l","a","b","l","e">>
ErrDisk ==
    <<"E","R","R","O","R",":"," ","u","n","a","b","l","e"," ","t","o"," ","w",
      "r","i","t","e"," ","d","a","t","a",":"," ","[","E","r","r","n","o"," ",
      "2","8","]"," ","N","o"," ","s","p","a","c","e"," ","l","e","f","t"," ",
      "o","n"," ","d","e","v","i","c","e">>
ErrMerge ==
    <<"E","R","R","O","R",":"," ","f","f","m","p","e","g"," ","i","s"," ","n",
      "o","t"," ","i","n","s","t","a","l","l","e","d">>

\* The files a run of the extractor may leave in the output directory.
MergedFile   == "video.mp4"
PartialFile  == "video.mp4.part"
PreMergeFile == "video.f137.mp4"

RaiseWrote(failure, msg, wrote) ==
    [kind |-> "raise", failure |-> failure, msg |-> msg, wrote |-> wrote]

Heights == {360, 480, 720, 1080}
TitleAB == <<"a","_","b">>

DownloadInfos ==
    { Present([title |-> a, height |-> h]) :
        a \in {Absent, PyNone, PyStr(TitleT), PyStr(TitleAB)},
        h \in {Absent, PyNone} \cup {PyInt(n) : n \in Heights} }

\* ydl.extract_info(url, download=True): an invalid URL fails before any
\* stream is fetched; the other failures may leave partial files.
ExtractInfoDownload(url) ==
    IF url = InvalidUrl
    THEN {RaiseWrote("invalid_url", ErrInvalidUrl, {})}
    ELSE {RaiseWrote("network", ErrNetwork, w) : w \in {{}, {PartialFile}}}
         \cup {RaiseWrote("blocked", ErrBlocked, {})}
         \cup {RaiseWrote("disk", ErrDisk, w) : w \in {{}, {PartialFile}}}
         \cup {RaiseWrote("merge", ErrMerge, {PreMergeFile})}
         \cup {RaiseWrote("other", m, {}) : m \in OtherErrorTexts}
         \cup {[kind |-> "return", info |-> i, wrote |-> {MergedFile}] :
                 i \in DownloadInfos}

----------------------------------------------------------------------------
(* download_video                                                          *)

\* The tiers the selectbox offers, and values no entry of the table has.
Qualities == {PyStr(Q2160), PyStr(Q1080), PyStr(Q720), PyStr(Q480),
              PyStr(<<"3","6","0">>), PyInt(720)}

OutTemplate ==
    <<"/","%","(","t","i","t","l","e",")","s","_","%","(","h","e","i","g","h",
      "t",")","s","p",".","%","(","e","x","t",")","s">>
Mp4 == <<"m","p","4">>

\* The ydl_opts dict of download_video.
download_opts(quality, output_path) ==
    [format              |-> get_quality_format(quality),
     outtmpl             |-> output_path \o OutTemplate,
     merge_output_format |-> Mp4,
     quiet               |-> FALSE,
     no_warnings         |-> FALSE,
     noplaylist          |-> TRUE]

\* A mutant: the file name is built from the requested tier.
download_filename_from_tier(info, quality, output_path) ==
    output_path \o <<"/">> \o Str(Get(info, "title", PyStr(Unknown)))
        \o <<"_">> \o Str(quality) \o <<"p",".","m","p","4">>

\* f"{output_path}/{info.get('title', 'Unknown')}_{info.get('height', quality)}p.mp4"
download_filename(info, quality, output_path) ==
    output_path \o <<"/">> \o Str(Get(info, "title", PyStr(Unknown)))
        \o <<"_">> \o Str(Get(info, "height", quality))
        \o <<"p",".","m","p","4">>

\* The try block of download_video, given what extract_info did.
download_outcome(outcome, quality, output_path) ==
    IF outcome.kind = "raise" THEN Failure(outcome.msg)
    ELSE [success  |-> PyBool(TRUE),
          title    |-> Get(outcome.info, "title", PyStr(Unknown)),
          filename |-> PyStr(download_filename(outcome.info, quality,
                                               output_path))]

Returned(value) == [kind |-> "return", value |-> value]
Raised(text)    == [kind |-> "raise", exc |-> text]

\* One call of download_video on the filesystem fsys.  `outcome` is what
\* the extractor does with this request when it is reached.  The call ends
\* in `result`: a returned dict or an escaped exception; `opts` is the
\* ydl_opts dict and `reached` the extractor's outcome, if it got that far.
download_video(fsys, url, quality, output_path, outcome) ==
    LET mk == makedirs(fsys, output_path)
    IN  IF mk.ok
        THEN [result  |-> Returned(download_outcome(outcome, quality,
                                                    output_path)),
              opts    |-> download_opts(quality, output_path),
              reached |-> outcome,
              fs      |-> [mk.fs EXCEPT ![output_path].files =
                                            @ \cup outcome.wrote]]
        ELSE [result  |-> Raised(mk.exc),
              opts    |-> NotYet,
              reached |-> NotYet,
              fs      |-> fsys]

----------------------------------------------------------------------------
(* The Streamlit script.  Every browser session runs the script in its     *)
(* own thread, top to bottom, once per widget event; a session's next run  *)
(* starts when its current one has ended.  st.button(...) is True only in  *)
(* the run its click started, so a run calls at most one adapter.          *)

Sessions == 1..NumSessions

\* The options of the quality selectbox.
SelectOptions == {PyStr(Q2160), PyStr(Q1080), PyStr(Q720), PyStr(Q480)}

\* What the extractor may do with an inspect-only request of the UI.
UiInspectOutcomes(url) ==
    IF url = InvalidUrl
    THEN {Raise("invalid_url", ErrInvalidUrl)}
    ELSE {Raise("network", ErrNetwork)}
         \cup {[kind |-> "return",
                 info |-> [title |-> PyStr(TitleT),
                           channel |-> PyStr(ChannelC),
                           duration |-> PyInt(65),
                           thumbnail |-> PyStr(ThumbU),
                           view_count |-> v,
                           description |-> PyStr(DescOf(2))]] :
                 v \in {PyNone, PyInt(1234)}}

\* What the extractor may do with a download request of the UI.
UiDownloadOutcomes(url) ==
    IF url = InvalidUrl
    THEN {RaiseWrote("invalid_url", ErrInvalidUrl, {})}
    ELSE {RaiseWrote("network", ErrNetwork, w) : w \in {{}, {PartialFile}}}
         \cup {[kind |-> "return",
                 info |-> [title |-> PyStr(TitleT), height |-> PyInt(720)],
                 wrote |-> {MergedFile}]}

\* A mutant: the adapter call is handed to a worker and not waited for.
ScriptBusy_not_waiting(s) == FALSE

\* `with st.spinner(...): info = get_video_info(url)` and
\* `result = download_video(url, quality, output_folder)` are plain calls:
\* the script run of session s is inside one until it returns.
ScriptBusy(s) == pc[s] # "idle"

\* The user edits the URL field; the rerun finds no button pressed.
EnterUrl(s, u) ==
    /\ ~ScriptBusy(s)
    /\ ui_url' = [ui_url EXCEPT ![s] = u]
    /\ UNCHANGED <<pc, trigger, inflight, session_state>>
    /\ UNCHANGED <<durVars, infoVars, dlVars>>

\* "Get Video Info" is rendered only `if url:`; its click starts a run that
\* calls get_video_info(url).
ClickInfo(s) ==
    /\ ~ScriptBusy(s)
    /\ ui_url[s] # ""
    /\ pc' = [pc EXCEPT ![s] = "info_call"]
    /\ trigger' = [trigger EXCEPT ![s] = [button |-> "info"]]
    /\ inflight' = [inflight EXCEPT ![s] = @ + 1]
    /\ UNCHANGED <<ui_url, session_state>>
    /\ UNCHANGED <<durVars, infoVars, dlVars>>

\* f"{info['views']:,}" raises for a view count that is no number.
RenderRaises(info) == info.views.t # "int"

\* get_video_info returns; the run renders the result and ends.
InfoReturns(s) ==
    /\ pc[s] = "info_call"
    /\ \E o \in UiInspectOutcomes(ui_url[s]) :
         LET info == get_video_info(o)
         IN  session_state' =
               IF info.success.b /\ ~RenderRaises(info)
               THEN [session_state EXCEPT ![s] = info]
               ELSE session_state
    /\ pc' = [pc EXCEPT ![s] = "idle"]
    /\ trigger' = [trigger EXCEPT ![s] = NotYet]
    /\ inflight' = [inflight EXCEPT ![s] = @ - 1]
    /\ UNCHANGED ui_url
    /\ UNCHANGED <<durVars, infoVars, dlVars>>

\* "Download Video" is disabled while the URL field is empty; its click
\* starts a run that calls download_video(url, quality, output_folder).
ClickDownload(s, q) ==
    /\ ~ScriptBusy(s)
    /\ ui_url[s] # ""
    /\ pc' = [pc EXCEPT ![s] = "download_call"]
    /\ trigger' = [trigger EXCEPT ![s] = [button |-> "download", quality |-> q]]
    /\ inflight' = [inflight EXCEPT ![s] = @ + 1]
    /\ UNCHANGED <<ui_url, session_state>>
    /\ UNCHANGED <<durVars, infoVars, dlVars>>

\* download_video returns; the run renders the result and ends.
DownloadReturns(s) ==
    /\ pc[s] = "download_call"
    /\ \E o \in UiDownloadOutcomes(ui_url[s]) :
         fs' = download_video(fs, ui_url[s], trigger[s].quality, OutDir, o).fs
    /\ pc' = [pc EXCEPT ![s] = "idle"]
    /\ trigger' = [trigger EXCEPT ![s] = NotYet]
    /\ inflight' = [inflight EXCEPT ![s] = @ - 1]
    /\ UNCHANGED <<ui_url, session_state>>
    /\ UNCHANGED <<dl_call, dl_outcome, ydl_opts, dl_result, watch, observed>>
    /\ UNCHANGED <<durVars, infoVars>>

----------------------------------------------------------------------------
(* The adapters and helpers called on their own.                           *)

DurationInputs ==
    {PyNone} \cup {PyInt(n) : n \in 0..MaxSeconds}
             \cup {PyInt(359999), PyInt(360000)}

\* format_duration(seconds)
FormatDuration ==
    /\ formatted = NotYet
    /\ formatted' = PyStr(format_duration(seconds))
    /\ UNCHANGED <<seconds, infoVars, dlVars, uiVars>>

\* get_video_info(url), the extractor doing info_outcome
GetVideoInfo ==
    /\ info_ret = NotYet
    /\ info_ret' = get_video_info(info_outcome)
    /\ UNCHANGED <<info_call, info_outcome, durVars, dlVars, uiVars>>

\* How a call ended, in a word.
ResultKind(result) ==
    CASE result = NotYet -> "none"
      [] result.kind = "raise" -> "raise"
      [] result.value.success.b -> "success"
      [] OTHER -> "failure"

\* download_video(url, quality, output_path), the extractor doing outcome.
\* With a watched call set, `observed` keeps the result of every call in
\* which the extractor does what it does in the watched call.
DownloadVideo(url, quality, output_path, outcome) ==
    LET r == download_video(fs, url, quality, output_path, outcome)
    IN  /\ dl_call' = [url |-> url, quality |-> quality,
                       output_path |-> output_path,
                       before |-> fs[output_path].files]
        /\ dl_result' = r.result
        /\ ydl_opts' = r.opts
        /\ dl_outcome' = r.reached
        /\ fs' = r.fs
        /\ observed' =
             IF watch = NotYet THEN observed
             ELSE [calls   |-> observed.calls + 1,
                   results |->
                     IF outcome = watch.outcome
                     THEN observed.results
                            \cup {[result |-> r.result,
                                   nth    |-> observed.calls + 1,
                                   prior  |-> ResultKind(dl_result)]}
                     ELSE observed.results]
        /\ UNCHANGED <<watch, durVars, infoVars, uiVars>>

DownloadCall(url, quality, output_path) ==
    \E o \in ExtractInfoDownload(url) :
        DownloadVideo(url, quality, output_path, o)

\* Calls with the watched arguments, one after the other.
DownloadAgain ==
    /\ watch # NotYet
    /\ observed.calls < MaxCalls
    /\ DownloadCall(watch.url, watch.quality, watch.output_path)

----------------------------------------------------------------------------
(* Initial states and specifications.                                      *)

InitialFs ==
    { [p \in Paths |-> [dir |-> d, files |-> f]] :
        d \in DirStates, f \in {{}, {MergedFile}} }

FreshFs == { f \in InitialFs : \A p \in Paths : f[p].dir = "absent" => f[p].files = {} }

\* The watched call: its arguments and what the extractor does with it.
Watches ==
    UNION { { [url |-> u, quality |-> q, output_path |-> p, outcome |-> o,
               fs0 |-> f] :
                q \in {PyStr(Q720), PyInt(720)}, p \in Paths,
                o \in ExtractInfoDownload(u), f \in FreshFs } : u \in Urls }

Idle(fss, watches) ==
    /\ formatted = NotYet
    /\ info_ret = NotYet
    /\ dl_call = NotYet /\ dl_outcome = NotYet /\ ydl_opts = NotYet
    /\ dl_result = NotYet
    /\ fs \in fss
    /\ watch \in watches
    /\ observed = [calls |-> 0, results |-> {}]
    /\ pc = [s \in Sessions |-> "idle"]
    /\ ui_url = [s \in Sessions |-> ""]
    /\ trigger = [s \in Sessions |-> NotYet]
    /\ inflight = [s \in Sessions |-> 0]
    /\ session_state = [s \in Sessions |-> NotYet]

NoDuration == seconds = NotYet
NoInfo == info_call = NotYet /\ info_outcome = NotYet

AbsentFs == {f \in InitialFs : f[OutDir] = [dir |-> "absent", files |-> {}]}

\* The application: the script, run by every session.
Init == Idle(AbsentFs, {NotYet}) /\ NoDuration /\ NoInfo

Next ==
    \/ \E s \in Sessions, u \in Urls \cup {""} : EnterUrl(s, u)
    \/ \E s \in Sessions : ClickInfo(s)
    \/ \E s \in Sessions : InfoReturns(s)
    \/ \E s \in Sessions, q \in SelectOptions : ClickDownload(s, q)
    \/ \E s \in Sessions : DownloadReturns(s)

Spec == Init /\ [][Next]_vars

\* format_duration on each of its inputs.
InitDuration ==
    /\ Idle(AbsentFs, {NotYet}) /\ NoInfo
    /\ seconds \in DurationInputs
NextDuration == FormatDuration
SpecDuration == InitDuration /\ [][NextDuration]_vars

\* get_video_info on every url and extractor outcome.
InitInfo ==
    /\ Idle(AbsentFs, {NotYet}) /\ NoDuration
    /\ \E u \in Urls :
         /\ info_call = [url |-> u]
         /\ info_outcome \in ExtractInfoInspect(u)
NextInfo == GetVideoInfo
SpecInfo == InitInfo /\ [][NextInfo]_vars

\* download_video on every argument, extractor outcome and directory state.
InitDownload == Idle(FreshFs, {NotYet}) /\ NoDuration /\ NoInfo
NextDownload ==
    \E u \in Urls, q \in Qualities, p \in Paths : DownloadCall(u, q, p)
SpecDownload == InitDownload /\ [][NextDownload]_vars

\* download_video called again and again with the same arguments.
InitRepeat ==
    /\ Idle(FreshFs, Watches) /\ NoDuration /\ NoInfo
    /\ watch.fs0 = fs
NextRepeat == DownloadAgain
SpecRepeat == InitRepeat /\ [][NextRepeat]_vars

----------------------------------------------------------------------------
(* Reading strings back: what the properties below use to look into the    *)
(* strings the program builds.                                             *)

\* s.split(c)
RECURSIVE Split(_, _)
Split(s, c) ==
    IF \E i \in 1..Len(s) : s[i] = c
    THEN LET i == CHOOSE k \in 1..Len(s) :
                      s[k] = c /\ \A j \in 1..(k - 1) : s[j] # c
         IN  <<SubSeq(s, 1, i - 1)>> \o Split(SubSeq(s, i + 1, Len(s)), c)
    ELSE <<s>>

\* sub in s
Contains(s, sub) ==
    \E i \in 0..(Len(s) - Len(sub)) : SubSeq(s, i + 1, i + Len(sub)) = sub

IsDigits(s) == Len(s) > 0 /\ \A i \in 1..Len(s) : \E d \in 1..10 : DigitChar[d] = s[i]

DigitValue(c) == (CHOOSE d \in 1..10 : DigitChar[d] = c) - 1

\* int(s) of a string of digits
RECURSIVE ParseInt(_)
ParseInt(s) ==
    IF Len(s) = 1 THEN DigitValue(s[1])
    ELSE 10 * ParseInt(SubSeq(s, 1, Len(s) - 1)) + DigitValue(s[Len(s)])

\* s.rfind(c), 1-based; 0 when c is not in s
LastIndexOf(s, c) ==
    IF \E i \in 1..Len(s) : s[i] = c
    THEN CHOOSE i \in 1..Len(s) : s[i] = c /\ \A j \in (i + 1)..Len(s) : s[j] # c
    ELSE 0

Tail5(s) == SubSeq(s, Len(s) - 4, Len(s))

BestVideoUpTo ==
    <<"b","e","s","t","v","i","d","e","o","[","h","e","i","g","h","t","<",
      "=">>
Mp4PlusM4aAudio ==
    <<"]","[","e","x","t","=","m","p","4","]","+","b","e","s","t","a","u","d",
      "i","o","[","e","x","t","=","m","4","a","]">>
BestUpTo ==
    <<"b","e","s","t","[","h","e","i","g","h","t","<","=">>
Mp4Only ==
    <<"]","[","e","x","t","=","m","p","4","]">>
Best == <<"b","e","s","t">>
Has720p == <<"_","7","2","0","p",".">>
PDotMp4 == <<"p",".","m","p","4">>

MetadataFields == {"title", "channel", "duration", "thumbnail", "views",
                   "description"}

DownloadDone == dl_call # NotYet
ExtractorReturned == dl_outcome # NotYet /\ dl_outcome.kind = "return"
ExtractorRaised == dl_outcome # NotYet /\ dl_outcome.kind = "raise"

----------------------------------------------------------------------------
(* C1: download_video maps every failure to a returned outcome: whatever   *)
(* fails (the network, the video, the disk, creating the output directory, *)
(* the merge tool), the call returns a dict with success False and error   *)
(* the raw error text, and no exception escapes.                           *)
C1_EveryFailureIsReturned ==
    DownloadDone =>
        /\ dl_result.kind = "return"
        /\ ExtractorRaised =>
             /\ dl_result.value.success = PyBool(FALSE)
             /\ dl_result.value.error = PyStr(dl_outcome.msg)

(* C2: for each of the tiers 2160, 1080, 720, 480 the format expression    *)
(* has exactly three '/'-separated levels: bestvideo up to the tier in mp4 *)
(* plus bestaudio in m4a, then best up to the tier in mp4, then best; any  *)
(* other input gets the expression of tier 1080.                           *)
C2_ThreeLevelsAndDefault ==
    (DownloadDone /\ ydl_opts # NotYet) =>
        LET q      == dl_call.quality
            tier   == IF q \in {PyStr(Q2160), PyStr(Q1080), PyStr(Q720),
                                PyStr(Q480)}
                      THEN q.s ELSE Q1080
            levels == Split(ydl_opts.format, "/")
        IN  /\ Len(levels) = 3
            /\ levels[1] = BestVideoUpTo \o tier \o Mp4PlusM4aAudio
            /\ levels[2] = BestUpTo \o tier \o Mp4Only
            /\ levels[3] = Best

\* C2's case: an int 720, which is no key of the table, got tier 1080.
C2_Witness ==
    /\ DownloadDone /\ ydl_opts # NotYet
    /\ dl_call.quality = PyInt(720)
    /\ Split(ydl_opts.format, "/")[2] = BestUpTo \o Q1080 \o Mp4Only

\* The extractor reports a resolved height of at most 720: the source
\* offers such a stream.
ResolvedUpTo720 ==
    /\ ExtractorReturned
    /\ "height" \in DOMAIN dl_outcome.info
    /\ dl_outcome.info.height.t = "int"
    /\ dl_outcome.info.height.n <= 720

(* C3, as claimed: download_video with a valid url and tier "720", the     *)
(* source offering a stream of height at most 720, returns a success dict  *)
(* whose filename contains "_720p.", whatever height was resolved.         *)
C3_FilenameHas720p ==
    (DownloadDone /\ dl_call.quality = PyStr(Q720) /\ ResolvedUpTo720) =>
        /\ dl_result.kind = "return"
        /\ dl_result.value.success = PyBool(TRUE)
        /\ Contains(dl_result.value.filename.s, Has720p)

(* C3, amended: in that case the returned dict has success True and its    *)
(* filename ends in "_<h>p.mp4", h the height the extractor reports; it    *)
(* contains "_720p." when h is 720.                                        *)
C3_FilenameHasResolvedHeight ==
    (DownloadDone /\ dl_call.quality = PyStr(Q720) /\ ResolvedUpTo720) =>
        /\ dl_result.kind = "return"
        /\ dl_result.value.success = PyBool(TRUE)
        /\ LET f  == dl_result.value.filename.s
               us == LastIndexOf(f, "_")
               hs == SubSeq(f, us + 1, Len(f) - 5)
           IN  /\ us > 0
               /\ Tail5(f) = PDotMp4
               /\ IsDigits(hs)
               /\ ParseInt(hs) = dl_outcome.info.height.n
               /\ dl_outcome.info.height.n = 720 => Contains(f, Has720p)

\* C3's case: tier 720 asked, 480 resolved, and the name says 480.
C3_Witness ==
    /\ DownloadDone /\ dl_call.quality = PyStr(Q720) /\ ResolvedUpTo720
    /\ dl_outcome.info.height.n = 480
    /\ dl_result.kind = "return"
    /\ Contains(dl_result.value.filename.s, <<"_","4","8","0","p",".">>)
    /\ ~Contains(dl_result.value.filename.s, Has720p)

InfoDone == info_ret # NotYet

(* C4, as claimed: whenever the inspect-only call raises, get_video_info   *)
(* returns success False, a non-empty error string and no metadata field.  *)
C4_FailureHasNonEmptyError ==
    (InfoDone /\ info_outcome.kind = "raise") =>
        /\ info_ret.success = PyBool(FALSE)
        /\ info_ret.error.t = "str" /\ info_ret.error.s # <<>>
        /\ DOMAIN info_ret \cap MetadataFields = {}

(* C4, amended: whenever the inspect-only call raises, get_video_info      *)
(* returns success False, error the text of the raised exception as it is  *)
(* (non-empty when that text is), and no metadata field.                   *)
C4_FailureCarriesRawText ==
    (InfoDone /\ info_outcome.kind = "raise") =>
        /\ DOMAIN info_ret = {"success", "error"}
        /\ info_ret.success = PyBool(FALSE)
        /\ info_ret.error.t = "str" /\ info_ret.error.s = info_outcome.msg
        /\ info_outcome.msg # <<>> => info_ret.error.s # <<>>
        /\ DOMAIN info_ret \cap MetadataFields = {}

\* C4's case: an invalid url, and the failure dict carries yt_dlp's text.
C4_Witness ==
    /\ InfoDone /\ info_call.url = InvalidUrl
    /\ info_outcome.kind = "raise"
    /\ info_ret.error.s = ErrInvalidUrl
    /\ Len(info_ret.error.s) > 0

\* The value get_video_info is claimed to give a field: the extractor's
\* when it provides one, the default otherwise.
ProvidedOr(key, default) == Get(info_outcome.info, key, default)

(* C5: whenever the inspect-only call succeeds, get_video_info returns a   *)
(* success dict, never a failure; a field the extractor's result lacks has *)
(* its default (title and channel "Unknown", duration and views 0,         *)
(* thumbnail and description empty), a field it provides is passed on (the *)
(* description through the excerpt of C6).                                 *)
C5_SuccessGivesRecord ==
    (InfoDone /\ info_outcome.kind = "return") =>
        /\ info_ret.success = PyBool(TRUE)
        /\ DOMAIN info_ret = {"success"} \cup MetadataFields
        /\ info_ret.title = ProvidedOr("title", PyStr(Unknown))
        /\ info_ret.channel = ProvidedOr("channel", PyStr(Unknown))
        /\ info_ret.duration = ProvidedOr("duration", PyInt(0))
        /\ info_ret.thumbnail = ProvidedOr("thumbnail", PyStr(<<>>))
        /\ info_ret.views = ProvidedOr("view_count", PyInt(0))
        /\ LET d == ProvidedOr("description", PyStr(<<>>))
           IN  d.t = "str" =>
                 info_ret.description = PyStr(description_excerpt(d.s))

(* C6: a description longer than 200 characters comes out 203 long: its    *)
(* first 200 characters and then "..."; one of 200 characters or fewer,    *)
(* the empty one too, comes out whole and then "...".                      *)
C6_Truncation ==
    (/\ InfoDone /\ info_outcome.kind = "return"
     /\ "description" \in DOMAIN info_outcome.info
     /\ info_outcome.info.description.t = "str") =>
        LET d   == info_outcome.info.description.s
            out == info_ret.description.s
        IN  /\ info_ret.success = PyBool(TRUE)
            /\ IF Len(d) > 200
               THEN /\ Len(out) = 203
                    /\ SubSeq(out, 1, 200) = SubSeq(d, 1, 200)
                    /\ SubSeq(out, 201, 203) = <<".",".",".">>
               ELSE out = d \o <<".",".",".">>

\* C6's case: a description of 201 characters was cut to 200 and marked.
C6_Witness ==
    /\ InfoDone /\ info_outcome.kind = "return"
    /\ "description" \in DOMAIN info_outcome.info
    /\ info_outcome.info.description = PyStr(DescOf(201))
    /\ Len(info_ret.description.s) = 203
    /\ info_ret.description.s[200] = DescOf(201)[200]
    /\ info_ret.description.s[201] = "."

RECURSIVE InFlightAmong(_)
InFlightAmong(ss) ==
    IF ss = {} THEN 0
    ELSE LET s == CHOOSE x \in ss : TRUE
         IN  inflight[s] + InFlightAmong(ss \ {s})

FirstCallResult ==
    download_video(watch.fs0, watch.url, watch.quality, watch.output_path,
                   watch.outcome).result

(* C8: two download_video calls with the same arguments are independent:   *)
(* for the same extractor outcome a call ends the same way whether it is   *)
(* the first one or comes after earlier calls, however those ended.        *)
C8_CallsAreIndependent ==
    watch # NotYet =>
        \A e \in observed.results : e.result = FirstCallResult

\* C8's case: the second call succeeded after a first one that failed.
C8_Witness ==
    /\ watch # NotYet
    /\ \E e \in observed.results :
         /\ e.nth = 2 /\ e.prior = "failure"
         /\ e.result.kind = "return"
         /\ e.result.value.success = PyBool(TRUE)

(* C9: download_video with an invalid url returns a failure dict, and the  *)
(* output directory holds no file it did not hold before the call.         *)
C9_InvalidUrlFailsWithoutFiles ==
    (DownloadDone /\ dl_call.url = InvalidUrl) =>
        /\ dl_result.kind = "return"
        /\ dl_result.value.success = PyBool(FALSE)
        /\ fs[dl_call.output_path].files = dl_call.before

(* C10: format_duration gives "Unknown" for 0 and for None; for a positive *)
(* whole number s of seconds, zero-padded "MM:SS" below 3600 and           *)
(* zero-padded "HH:MM:SS" from 3600 on, HH = s div 3600,                   *)
(* MM = (s mod 3600) div 60, SS = s mod 60; 65 gives "01:05" and 3661      *)
(* gives "01:01:01".                                                       *)
C10_FormatDuration ==
    formatted # NotYet =>
        LET out == formatted.s
            n   == Len(out)
        IN  IF seconds = PyNone \/ seconds = PyInt(0) THEN out = Unknown
            ELSE LET s  == seconds.n
                     mm == SubSeq(out, n - 4, n - 3)
                     ss == SubSeq(out, n - 1, n)
                 IN  /\ n >= 5
                     /\ out[n - 2] = ":"
                     /\ IsDigits(mm) /\ ParseInt(mm) = (s % 3600) \div 60
                     /\ IsDigits(ss) /\ ParseInt(ss) = s % 60
                     /\ IF s < 3600 THEN n = 5
                        ELSE LET hh == SubSeq(out, 1, n - 6)
                             IN  /\ n >= 8
                                 /\ out[n - 5] = ":"
                                 /\ IsDigits(hh)
                                 /\ ParseInt(hh) = s \div 3600
                                 /\ Len(hh) = 2 \/ hh[1] # "0"
                     /\ s = 65 => out = <<"0","1",":","0","5">>
                     /\ s = 3661 =>
                          out = <<"0","1",":","0","1",":","0","1">>

\* C10's case: 3661 seconds were formatted.
C10_Witness ==
    /\ seconds = PyInt(3661)
    /\ formatted = PyStr(<<"0","1",":","0","1",":","0","1">>)

====
